---- MODULE Spec2Model ----
(***************************************************************************)
(* Freshmart: the cart's coupon engine (Cart component), the server's      *)
(* order submission, coupon validation and admin coupon routes (Express),  *)
(* and the HTTP client of the API service.                                 *)
(*                                                                         *)
(* The specifications of the module:                                       *)
(*   OrderSpec     the server: POST /api/orders as a multi-step            *)
(*                 transaction and POST /api/coupons/validate;             *)
(*   Spec          the client cart: quantity buttons, coupon handlers, the *)
(*                 auto-apply effect and its validation requests in flight;*)
(*   ValidateSpec  the cart's validation call against varied catalogs;     *)
(*   PriceSpec     the cart's calculation under cart and coupon changes;   *)
(*   AdminSpec     the admin coupon routes: create, update, delete;        *)
(*   QuiesceSpec   the client cart with every validation response          *)
(*                 delivered, whatever the number of requests in flight;   *)
(*   HttpSpec      the HTTP client: one apiRequest call after another.     *)
(* Amounts are integers (rupees).                                          *)
(***************************************************************************)
EXTENDS Integers, Sequences, FiniteSets, Bags, TLC

VARIABLES
    server,          \* which server file is deployed: "current" | "earlier"
    coupons,         \* Coupon collection: stored code -> document
    stock,           \* Product collection: product id -> stock
    orders,          \* Order collection, in commit order
    userMobile,      \* User collection: user id -> mobileNumber
    txn,             \* request slot -> state of a POST /api/orders request
    started,         \* number of order requests started so far
    lastValidation,  \* last response of POST /api/coupons/validate
    notifications    \* the newOrderNotification events emitted, in order

VARIABLES
    autoApplyNav,        \* location.state.autoApply ("" when there is none)
    cart,                \* state.cart: cart line -> quantity (0: not in the cart)
    appliedCoupons,      \* the applied-coupon list of {code, discount}
    couponCode,          \* the promo code input
    hasPlacedOrder,      \* the order-history flag
    stateCoupons,        \* state.coupons: the coupon list fetched by the client
    usedSpecialCoupons,  \* gift codes marked used in this session
    manualRequests,      \* validation requests of handleApplyCoupon in flight
    passes,              \* checkAutoApply invocations waiting for a response
    deliveries           \* validation responses delivered since the last change of
                         \* the user, the catalog or the flag (counted in QuiesceSpec)

VARIABLES
    couponCollection,    \* Coupon collection as the admin routes see it: documents in insertion order
    uniqueIndex,         \* whether the Coupon model declares code unique
    adminReq,            \* request slot -> state of an admin coupon request
    adminStarted         \* number of admin coupon requests started so far

VARIABLES
    httpClient,          \* which apiRequest is built: "part_002" | "api.ts"
    memoryAccessToken,   \* the in-memory access token ("" for null)
    csrfToken,           \* the in-memory CSRF token ("" for null)
    call,                \* the apiRequest call in progress
    calls                \* number of apiRequest calls made so far

serverVars == <<server, coupons, stock, orders, userMobile, txn, started, lastValidation,
                notifications>>

clientVars == <<autoApplyNav, cart, appliedCoupons, couponCode, hasPlacedOrder,
                stateCoupons, usedSpecialCoupons, manualRequests, passes, deliveries>>

adminVars == <<couponCollection, uniqueIndex, adminReq, adminStarted>>

httpVars == <<httpClient, memoryAccessToken, csrfToken, call, calls>>

vars == <<serverVars, clientVars, adminVars, httpVars>>

----------------------------------------------------------------------------
(* Bounds *)

MaxRequests == 2      \* order requests started in one behaviour

\* the order requests in flight at the same time
Slots == {1, 2}

----------------------------------------------------------------------------
(* Data of the deployment: users, products, coupon documents *)

Users == {"u1", "u2"}

Username == [u1 |-> "Alice", u2 |-> "bob"]

ProductIds == {"p1", "p2"}

InitialStock == [p1 |-> 3, p2 |-> 1]

\* String.prototype.toUpperCase on the code spellings that occur
ToUpperCase(s) ==
    CASE s = "save50" -> "SAVE50"
      [] s = "new10" -> "NEW10"
      [] OTHER -> s

CouponDoc(amount, minimum, type) ==
    [discountAmount |-> amount, minOrderAmount |-> minimum, type |-> type,
     targetUsername |-> "", isActive |-> TRUE, expired |-> FALSE, usedBy |-> <<>>]

CouponDocs ==
    [NEPAL100  |-> CouponDoc(100, 8000, "REGULAR"),
     ABOVE2500 |-> CouponDoc(60, 2500, "REGULAR"),
     ABOVE2000 |-> CouponDoc(40, 2000, "REGULAR"),
     WELCOME   |-> CouponDoc(20, 0, "FIRST_ORDER"),
     SAVE50    |-> CouponDoc(50, 0, "REGULAR")]

\* the order in which Coupon.find returns the documents
CouponOrder ==
    <<"NEPAL100", "ABOVE2500", "ABOVE2000", "WELCOME", "SAVE50",
      "GIFT", "GIFTBOB", "FIRSTGIFT", "SPECIAL">>

----------------------------------------------------------------------------
(* POST /api/orders *)

\* an optional number of the request body: <<>> when omitted, else <<n>>
OrZero(x) == IF Len(x) = 0 THEN 0 ELSE x[1]

RECURSIVE CalculatedTotal(_)
\* items.reduce((sum, item) => sum + item.price * item.quantity, 0)
CalculatedTotal(items) ==
    IF Len(items) = 0 THEN 0
    ELSE CalculatedTotal(SubSeq(items, 1, Len(items) - 1))
         + items[Len(items)].price * items[Len(items)].quantity

\* mobileNumber.replace('+977-', '')
RawMobile(m) ==
    CASE m = "+977-98" -> "98"
      [] OTHER -> m

IdleTxn ==
    [pc |-> "idle", user |-> "", items |-> <<>>, couponCodes |-> <<>>,
     totalAmount |-> 0, discountApplied |-> 0, deliveryCharge |-> 0,
     finalAmount |-> 0, mobileNumber |-> "", k |-> 0,
     wUsed |-> {}, wOrder |-> FALSE, wStock |-> [p \in ProductIds |-> 0],
     wMobile |-> <<>>]

\* request bodies: the item list with the discount and deliveryCharge sent
\* along with it (each <<>> when omitted)
Carts ==
    {[items |-> << [id |-> "p1", price |-> 100, quantity |-> 2] >>,
      discount |-> <<>>, deliveryCharge |-> <<>>],
     [items |-> << [id |-> "p1", price |-> 100, quantity |-> 2],
                   [id |-> "p2", price |-> 250, quantity |-> 1] >>,
      discount |-> <<50>>, deliveryCharge |-> <<25>>]}

\* the total and finalTotal the client sends
ClientTotals ==
    {[total |-> 200, finalTotal |-> 200],
     [total |-> 1, finalTotal |-> 1]}

CouponLists == {<<>>, <<"SAVE50">>}

\* the mobileNumber each user's client sends ("" when it sends none)
MobileOf == [u1 |-> "+977-98", u2 |-> ""]

Bodies ==
    {[items |-> c.items, discount |-> c.discount, deliveryCharge |-> c.deliveryCharge,
      total |-> t.total, finalTotal |-> t.finalTotal, couponCodes |-> l] :
        c \in Carts, t \in ClientTotals, l \in CouponLists}

\* a body whose couponCodes spell SAVE50 in lower case (orderSchema takes
\* any array of strings)
LowerCaseBody ==
    [items |-> << [id |-> "p1", price |-> 100, quantity |-> 2] >>,
     discount |-> <<50>>, deliveryCharge |-> <<>>,
     total |-> 200, finalTotal |-> 200, couponCodes |-> <<"save50">>]

\* the bodies each user's client sends: u2 orders one line without coupons
BodiesOf ==
    [u1 |-> Bodies \cup {LowerCaseBody},
     u2 |-> {b \in Bodies : b.couponCodes = <<>> /\ Len(b.items) = 1}]

\* mutant: the discount of an order that names no coupon is not accepted
CurrentAmounts_CouponsRequired(body) ==
    LET calculatedTotal == CalculatedTotal(body.items)
        validDiscount   == IF Len(body.couponCodes) = 0 THEN 0 ELSE OrZero(body.discount)
        validDelivery   == OrZero(body.deliveryCharge)
    IN  [totalAmount |-> calculatedTotal,
         discountApplied |-> validDiscount,
         deliveryCharge |-> validDelivery,
         finalAmount |-> calculatedTotal - validDiscount + validDelivery]

\* the monetary fields of the Order document, current server
\* (calculatedTotal, validDiscount, validDelivery, calculatedFinal)
CurrentAmounts(body) ==
    LET calculatedTotal == CalculatedTotal(body.items)
        validDiscount   == OrZero(body.discount)
        validDelivery   == OrZero(body.deliveryCharge)
    IN  [totalAmount |-> calculatedTotal,
         discountApplied |-> validDiscount,
         deliveryCharge |-> validDelivery,
         finalAmount |-> calculatedTotal - validDiscount + validDelivery]

\* the monetary fields of the Order document, earlier server: total and
\* finalTotal are taken from the request body
EarlierAmounts(body) ==
    [totalAmount |-> body.total,
     discountApplied |-> OrZero(body.discount),
     deliveryCharge |-> OrZero(body.deliveryCharge),
     finalAmount |-> body.finalTotal]

\* session.startTransaction() and the synchronous computation up to the
\* first await
BeginOrder(r, u, body) ==
    /\ txn[r].pc = "idle"
    /\ started < MaxRequests
    /\ started' = started + 1
    /\ LET a == IF server = "current" THEN CurrentAmounts(body)
                ELSE EarlierAmounts(body)
       IN txn' = [txn EXCEPT ![r] =
                    [IdleTxn EXCEPT
                       !.pc = IF server = "current" THEN "coupons" ELSE "save",
                       !.user = u,
                       !.items = body.items,
                       !.couponCodes = body.couponCodes,
                       !.totalAmount = a.totalAmount,
                       !.discountApplied = a.discountApplied,
                       !.deliveryCharge = a.deliveryCharge,
                       !.finalAmount = a.finalAmount,
                       !.mobileNumber = MobileOf[u],
                       !.k = 1]]
    /\ UNCHANGED <<server, coupons, stock, orders, userMobile, lastValidation,
                   notifications, clientVars, adminVars, httpVars>>

Includes(arr, x) == \E i \in 1..Len(arr) : arr[i] = x

\* { code: { $in: couponCodes } }: the documents whose stored code is
\* literally one of couponCodes
MatchedCoupons(couponCodes) ==
    {c \in DOMAIN coupons : Includes(couponCodes, c)}

\* mutant: $push instead of $addToSet
AddToSet_Push(arr, id) == Append(arr, id)

\* { $addToSet: { usedBy: id } } on the usedBy array
AddToSet(arr, id) == IF Includes(arr, id) THEN arr ELSE Append(arr, id)

\* if (couponCodes && couponCodes.length > 0) Coupon.updateMany(..., { session })

MarkCouponsUsed(r) ==
    /\ txn[r].pc = "coupons"
    /\ txn' = [txn EXCEPT ![r].pc = "save",
                          ![r].wUsed = IF Len(txn[r].couponCodes) > 0
                                       THEN MatchedCoupons(txn[r].couponCodes)
                                       ELSE {}]
    /\ UNCHANGED <<server, coupons, stock, orders, userMobile, started, lastValidation,
                   notifications, clientVars, adminVars, httpVars>>

\* order.save({ session })
SaveOrder(r) ==
    /\ txn[r].pc = "save"
    /\ txn' = [txn EXCEPT ![r].pc = "stock", ![r].wOrder = TRUE]
    /\ UNCHANGED <<server, coupons, stock, orders, userMobile, started, lastValidation,
                   notifications, clientVars, adminVars, httpVars>>

\* one iteration of: for (const item of items)
\*   Product.findByIdAndUpdate(item.id, { $inc: { stock: -item.quantity } }, { session })
UpdateStock(r) ==
    /\ txn[r].pc = "stock"
    /\ LET t == txn[r] IN
       txn' = [txn EXCEPT ![r].k = t.k + 1,
                          ![r].wStock[t.items[t.k].id] = @ + t.items[t.k].quantity,
                          ![r].pc = IF t.k < Len(t.items) THEN "stock" ELSE "mobile"]
    /\ UNCHANGED <<server, coupons, stock, orders, userMobile, started, lastValidation,
                   notifications, clientVars, adminVars, httpVars>>

\* if (mobileNumber) User.findByIdAndUpdate(req.user.id, { mobileNumber: rawMobile }, { session })
UpdateMobile(r) ==
    /\ txn[r].pc = "mobile"
    /\ txn' = [txn EXCEPT ![r].pc = "commit",
                          ![r].wMobile = IF txn[r].mobileNumber # ""
                                         THEN <<RawMobile(txn[r].mobileNumber)>>
                                         ELSE <<>>]
    /\ UNCHANGED <<server, coupons, stock, orders, userMobile, started, lastValidation,
                   notifications, clientVars, adminVars, httpVars>>

\* the Order document of a request
OrderDoc(t) ==
    [user |-> t.user, items |-> t.items, couponCodes |-> t.couponCodes,
     totalAmount |-> t.totalAmount, discountApplied |-> t.discountApplied,
     deliveryCharge |-> t.deliveryCharge, finalAmount |-> t.finalAmount,
     status |-> "Pending"]

\* the payload of io.to('admin_room').to('staff_room').emit('newOrderNotification', ...)
NewOrderNotification(t) ==
    [userId |-> t.user, total |-> t.totalAmount, discount |-> t.discountApplied,
     deliveryCharge |-> t.deliveryCharge, finalTotal |-> t.finalAmount]

\* session.commitTransaction(): every write made with { session } becomes
\* visible at once; the route of services/api.ts then emits the
\* notification, the earlier server's route emits none
CommitTransaction(r) ==
    /\ txn[r].pc = "commit"
    /\ LET t == txn[r] IN
       /\ coupons' = [c \in DOMAIN coupons |->
                        IF c \in t.wUsed
                        THEN [coupons[c] EXCEPT !.usedBy = AddToSet(@, t.user)]
                        ELSE coupons[c]]
       /\ orders' = IF t.wOrder THEN Append(orders, OrderDoc(t)) ELSE orders
       /\ stock' = [p \in ProductIds |-> stock[p] - t.wStock[p]]
       /\ userMobile' = IF Len(t.wMobile) > 0
                        THEN [userMobile EXCEPT ![t.user] = t.wMobile[1]]
                        ELSE userMobile
    /\ txn' = [txn EXCEPT ![r] = IdleTxn]
    /\ notifications' = IF server = "current"
                        THEN Append(notifications, NewOrderNotification(txn[r]))
                        ELSE notifications
    /\ UNCHANGED <<server, started, lastValidation, clientVars, adminVars, httpVars>>

\* mutant: the stock updates were made without { session } and survive
AbortTransaction_StockKept(r) ==
    /\ txn[r].pc \in {"coupons", "save", "stock", "mobile", "commit"}
    /\ txn' = [txn EXCEPT ![r] = IdleTxn]
    /\ stock' = [p \in ProductIds |-> stock[p] - txn[r].wStock[p]]
    /\ UNCHANGED <<server, coupons, orders, userMobile, started, lastValidation,
                   notifications, clientVars, adminVars, httpVars>>

\* catch (err) { session.abortTransaction() }: an awaited step threw; the
\* writes made with { session } are discarded
AbortTransaction(r) ==
    /\ txn[r].pc \in {"coupons", "save", "stock", "mobile", "commit"}
    /\ txn' = [txn EXCEPT ![r] = IdleTxn]
    /\ UNCHANGED <<server, coupons, stock, orders, userMobile, started, lastValidation,
                   notifications, clientVars, adminVars, httpVars>>

----------------------------------------------------------------------------
(* POST /api/coupons/validate *)

NoCoupon == [code |-> "", discountAmount |-> 0]

\* mutant: the names are compared as they are
TrimLower_Exact(s) == s

\* String.prototype.trim().toLowerCase() on the names that occur
TrimLower(s) ==
    CASE s = "Alice" -> "alice"
      [] s = " ALICE " -> "alice"
      [] OTHER -> s

OrderCount(ords, u) == Cardinality({i \in 1..Len(ords) : ords[i].user = u})

\* the filter of the first-order count: { user: userId } in
\* services/api.ts, { userId } in part_006. Order documents are written with
\* the path user, so the path userId is either dropped from the filter
\* (strictQuery on: every order counts) or matches no document
OrderCountQueries == {"user", "userId dropped", "userId unmatched"}

\* Order.countDocuments(filter)
CountDocuments(ords, u, query) ==
    CASE query = "user" -> OrderCount(ords, u)
      [] query = "userId dropped" -> Len(ords)
      [] OTHER -> 0

\* the response for (code, orderTotal) sent by user u against the coupon
\* collection cps, orderCount being the result of the first-order count
ValidateCounted(cps, orderCount, u, code, orderTotal) ==
    LET username == Username[u]
        key == ToUpperCase(code)
    IN
    IF ~(key \in DOMAIN cps /\ cps[key].isActive)
    THEN [isValid |-> FALSE, error |-> "Invalid coupon code", coupon |-> NoCoupon]
    ELSE LET coupon == cps[key] IN
    IF coupon.expired
    THEN [isValid |-> FALSE, error |-> "Coupon expired", coupon |-> NoCoupon]
    ELSE IF username # "" /\ Includes(coupon.usedBy, u)
    THEN [isValid |-> FALSE, error |-> "You have already redeemed this coupon.",
          coupon |-> NoCoupon]
    ELSE IF coupon.targetUsername # "" /\ username # ""
            /\ TrimLower(coupon.targetUsername) # TrimLower(username)
    THEN [isValid |-> FALSE, error |-> "This coupon is not available for your account.",
          coupon |-> NoCoupon]
    ELSE IF coupon.targetUsername # "" /\ username = ""
    THEN [isValid |-> FALSE, error |-> "This coupon is not available for your account.",
          coupon |-> NoCoupon]
    ELSE IF ~(coupon.targetUsername # "" \/ coupon.type = "SPECIAL_GIFT")
            /\ coupon.minOrderAmount # 0 /\ orderTotal < coupon.minOrderAmount
    THEN [isValid |-> FALSE, error |-> "Order must be at least the minimum",
          coupon |-> NoCoupon]
    ELSE IF coupon.type = "FIRST_ORDER" /\ orderCount > 0
    THEN [isValid |-> FALSE, error |-> "This coupon is valid for first order only.",
          coupon |-> NoCoupon]
    ELSE [isValid |-> TRUE, error |-> "",
          coupon |-> [code |-> key, discountAmount |-> coupon.discountAmount]]

\* the route of services/api.ts, against the collections cps and ords
ValidateCoupon(cps, ords, u, code, orderTotal) ==
    ValidateCounted(cps, CountDocuments(ords, u, "user"), u, code, orderTotal)

\* the earlier server's route: no usedBy, target or first-order check
ValidateCouponEarlier(cps, code, orderTotal) ==
    LET key == ToUpperCase(code) IN
    IF ~(key \in DOMAIN cps /\ cps[key].isActive)
    THEN [isValid |-> FALSE, error |-> "Invalid coupon code", coupon |-> NoCoupon]
    ELSE LET coupon == cps[key] IN
    IF coupon.expired
    THEN [isValid |-> FALSE, error |-> "Coupon expired", coupon |-> NoCoupon]
    ELSE IF coupon.minOrderAmount # 0 /\ orderTotal < coupon.minOrderAmount
    THEN [isValid |-> FALSE, error |-> "Order must be at least the minimum",
          coupon |-> NoCoupon]
    ELSE [isValid |-> TRUE, error |-> "",
          coupon |-> [code |-> key, discountAmount |-> coupon.discountAmount]]

ValidateCodes == {"SAVE50", "WELCOME"}

NoValidation == [user |-> "", code |-> "", isValid |-> FALSE, error |-> ""]

\* the route handler: one request, answered from the committed collections
ValidateRequest(u, code) ==
    /\ \E query \in OrderCountQueries :
         LET res == IF server = "current"
                    THEN ValidateCounted(coupons, CountDocuments(orders, u, query),
                                         u, code, 0)
                    ELSE ValidateCouponEarlier(coupons, code, 0)
         IN lastValidation' = [user |-> u, code |-> code,
                               isValid |-> res.isValid, error |-> res.error]
    /\ UNCHANGED <<server, coupons, stock, orders, userMobile, txn, started,
                   notifications, clientVars, adminVars, httpVars>>

----------------------------------------------------------------------------
(* The admin coupon routes *)

MaxAdminRequests == 2   \* admin coupon requests started in one behaviour

\* the admin requests in flight at the same time
AdminSlots == {1, 2}

\* the codes the admin types, and the discount amounts
AdminCodes == {"new10", "NEW10", "SAVE50"}

AdminAmounts == {10}

\* the collection before the admin acts
InitialCollection == << [code |-> "SAVE50", discountAmount |-> 50] >>

IdleAdmin ==
    [pc |-> "idle", op |-> "", code |-> "", originalCode |-> "",
     discountAmount |-> 0, status |-> 0, message |-> ""]

\* the admin routes stay out of the run: no request slot, no document seen
AdminIdle ==
    /\ couponCollection = <<>>
    /\ uniqueIndex = TRUE
    /\ adminReq = <<>>
    /\ adminStarted = 0

\* Coupon.findOne({ code }): the positions of the documents with that code
FindCode(coll, code) == {i \in 1..Len(coll) : coll[i].code = code}

Respond(req, status, message) ==
    [req EXCEPT !.pc = "idle", !.status = status, !.message = message]

\* POST /api/admin/coupons up to coupon.save(): the body's code is
\* upper-cased and looked up
CreateCoupon(r, code, amount) ==
    /\ adminReq[r].pc = "idle"
    /\ adminStarted < MaxAdminRequests
    /\ adminStarted' = adminStarted + 1
    /\ LET req == [IdleAdmin EXCEPT !.op = "create", !.code = ToUpperCase(code),
                                    !.discountAmount = amount]
       IN  adminReq' = [adminReq EXCEPT ![r] =
                          IF FindCode(couponCollection, ToUpperCase(code)) # {}
                          THEN Respond(req, 400, "Coupon code already exists")
                          ELSE [req EXCEPT !.pc = "save"]]
    /\ UNCHANGED <<couponCollection, uniqueIndex, serverVars, clientVars, httpVars>>

\* coupon.save(): the insert; a unique index on code refuses a second
\* document with the code and the catch answers 500 with the driver's message
SaveCoupon(r) ==
    /\ adminReq[r].pc = "save"
    /\ LET req == adminReq[r] IN
       IF uniqueIndex /\ FindCode(couponCollection, req.code) # {}
       THEN /\ adminReq' = [adminReq EXCEPT ![r] = Respond(req, 500, "E11000 duplicate key error")]
            /\ UNCHANGED couponCollection
       ELSE /\ adminReq' = [adminReq EXCEPT ![r] = Respond(req, 200, "Coupon created")]
            /\ couponCollection' = Append(couponCollection,
                                          [code |-> req.code,
                                           discountAmount |-> req.discountAmount])
    /\ UNCHANGED <<uniqueIndex, adminStarted, serverVars, clientVars, httpVars>>

\* PUT /api/admin/coupons/:code up to Coupon.findOneAndUpdate: the new code
\* is looked up when it differs from the original one
UpdateCoupon(r, param, code, amount) ==
    /\ adminReq[r].pc = "idle"
    /\ adminStarted < MaxAdminRequests
    /\ adminStarted' = adminStarted + 1
    /\ LET req == [IdleAdmin EXCEPT !.op = "update", !.code = ToUpperCase(code),
                                    !.originalCode = ToUpperCase(param),
                                    !.discountAmount = amount]
       IN  adminReq' = [adminReq EXCEPT ![r] =
                          IF /\ ToUpperCase(code) # ToUpperCase(param)
                             /\ FindCode(couponCollection, ToUpperCase(code)) # {}
                          THEN Respond(req, 400, "Coupon code already exists")
                          ELSE [req EXCEPT !.pc = "update"]]
    /\ UNCHANGED <<couponCollection, uniqueIndex, serverVars, clientVars, httpVars>>

\* Coupon.findOneAndUpdate({ code: originalCode }, { code, ... })
FindOneAndUpdate(r) ==
    /\ adminReq[r].pc = "update"
    /\ LET req == adminReq[r]
           hits == FindCode(couponCollection, req.originalCode)
       IN  IF hits = {}
           THEN /\ adminReq' = [adminReq EXCEPT ![r] = Respond(req, 404, "Coupon not found")]
                /\ UNCHANGED couponCollection
           ELSE LET i == CHOOSE k \in hits : \A j \in hits : k <= j IN
                IF uniqueIndex /\ FindCode(couponCollection, req.code) \ {i} # {}
                THEN /\ adminReq' = [adminReq EXCEPT
                                       ![r] = Respond(req, 500, "E11000 duplicate key error")]
                     /\ UNCHANGED couponCollection
                ELSE /\ adminReq' = [adminReq EXCEPT ![r] = Respond(req, 200, "Coupon updated")]
                     /\ couponCollection' =
                          [couponCollection EXCEPT
                             ![i] = [code |-> req.code,
                                     discountAmount |-> req.discountAmount]]
    /\ UNCHANGED <<uniqueIndex, adminStarted, serverVars, clientVars, httpVars>>

\* the sequence without its element at position i
RemoveAt(seq, i) == SubSeq(seq, 1, i - 1) \o SubSeq(seq, i + 1, Len(seq))

\* DELETE /api/admin/coupons/:code: Coupon.findOneAndDelete
DeleteCoupon(r, param) ==
    /\ adminReq[r].pc = "idle"
    /\ adminStarted < MaxAdminRequests
    /\ adminStarted' = adminStarted + 1
    /\ LET req == [IdleAdmin EXCEPT !.op = "delete", !.originalCode = ToUpperCase(param)]
           hits == FindCode(couponCollection, ToUpperCase(param))
       IN  /\ adminReq' = [adminReq EXCEPT ![r] = Respond(req, 200, "Coupon deleted")]
           /\ couponCollection' =
                IF hits = {} THEN couponCollection
                ELSE RemoveAt(couponCollection, CHOOSE k \in hits : \A j \in hits : k <= j)
    /\ UNCHANGED <<uniqueIndex, serverVars, clientVars, httpVars>>

----------------------------------------------------------------------------
(* The HTTP client: apiRequest *)

MaxCalls == 2   \* apiRequest calls made

\* the access tokens POST /api/refresh-token and the AuthContext hand out
AccessTokens == {"a1", "a2"}

\* the tokens GET /api/csrf-token hands out
CsrfTokens == {"c1", "c2"}

Methods == {"GET", "POST"}

\* the answers to the original request: a Response, or the rejection of
\* fetch (network failure, or the abort of the 15 s timer)
NoResponse == [status |-> 0, code |-> "", json |-> FALSE]

Rejected == [status |-> -1, code |-> "", json |-> FALSE]

Responses ==
    {[status |-> 200, code |-> "", json |-> TRUE],
     [status |-> 200, code |-> "", json |-> FALSE],
     [status |-> 401, code |-> "", json |-> TRUE],
     [status |-> 403, code |-> "CSRF_ERROR", json |-> TRUE],
     [status |-> 403, code |-> "", json |-> TRUE],
     [status |-> 500, code |-> "", json |-> TRUE]}

\* the answers to POST /api/refresh-token: a new access token, a body
\* without one, a status that is not ok, or a rejected fetch
RefreshAnswers == AccessTokens \cup {"noToken", "notOk", "rejected"}

\* one apiRequest call: where it waits, the headers it prepared, the latest
\* response, and what it has done so far
IdleCall ==
    [pc |-> "idle", stage |-> "",
     headers |-> [Authorization |-> "", csrf |-> ""],
     sent |-> [Authorization |-> "", csrf |-> ""],
     response |-> NoResponse, refresh |-> "",
     attempts |-> 0, csrfRefreshes |-> 0, tokenRefreshes |-> 0]

\* no call is made
NoCall == [pc |-> "idle"]

HttpIdle ==
    /\ httpClient = ""
    /\ memoryAccessToken = ""
    /\ csrfToken = ""
    /\ call = NoCall
    /\ calls = 0

\* step 1 of apiRequest: the headers of the call, from getAuthHeaders and
\* (part_002 only) the CSRF token in memory
PrepareHeaders(c, access, csrf) ==
    [c EXCEPT !.headers = [Authorization |-> access,
                           csrf |-> IF httpClient = "part_002" THEN csrf ELSE ""]]

\* performRequest(token): one attempt of the original request leaves
PerformRequest(c, token, stage) ==
    [c EXCEPT !.pc = "fetch", !.stage = stage,
              !.sent = [c.headers EXCEPT !.Authorization = IF token # "" THEN token ELSE @],
              !.attempts = @ + 1]

\* the end of the call: the parsed body is returned, or an Error is thrown
\* (status not ok, or in part_002 a body that is not JSON)
Finish(c, resp) ==
    [c EXCEPT !.response = resp,
              !.pc = IF resp.status = 200 /\ (resp.json \/ httpClient = "api.ts")
                     THEN "returned" ELSE "thrown"]

\* apiRequest up to its first await: step 0 fetches a CSRF token for a
\* state-changing request outside /auth/ when none is in memory (part_002)
ApiRequest(isAuthRoute, method) ==
    /\ call.pc \in {"idle", "returned", "thrown"}
    /\ calls < MaxCalls
    /\ calls' = calls + 1
    /\ call' = IF /\ httpClient = "part_002"
                  /\ ~isAuthRoute
                  /\ method \in {"POST", "PUT", "DELETE", "PATCH"}
                  /\ csrfToken = ""
               THEN [IdleCall EXCEPT !.pc = "csrf"]
               ELSE PerformRequest(PrepareHeaders(IdleCall, memoryAccessToken, csrfToken),
                                   "", "first")
    /\ UNCHANGED <<httpClient, memoryAccessToken, csrfToken, serverVars, clientVars, adminVars>>

\* getCsrfToken settles: the token of the answer ("" when the fetch failed
\* or the answer carries none); the call goes on to its next attempt
CsrfTokenAnswer(token) ==
    /\ call.pc \in {"csrf", "csrfRetry"}
    /\ csrfToken' = token
    /\ call' = IF call.pc = "csrf"
               THEN PerformRequest(PrepareHeaders(call, memoryAccessToken, token),
                                   "", "first")
               ELSE PerformRequest([call EXCEPT !.headers.csrf = IF token # "" THEN token ELSE @],
                                   "", "afterCsrf")
    /\ UNCHANGED <<httpClient, memoryAccessToken, calls, serverVars, clientVars, adminVars>>

\* an attempt of the original request settles: steps 3 and 4 of apiRequest
\* and its end
Response(resp) ==
    /\ call.pc = "fetch"
    /\ IF /\ httpClient = "part_002"
          /\ call.stage = "first"
          /\ resp.status = 403
          /\ resp.code = "CSRF_ERROR"
       THEN /\ csrfToken' = ""
            /\ call' = [call EXCEPT !.pc = "csrfRetry", !.response = resp,
                                    !.csrfRefreshes = @ + 1]
       ELSE /\ UNCHANGED csrfToken
            /\ call' = IF resp.status = 401 /\ call.stage # "afterRefresh"
                       THEN [call EXCEPT !.pc = "refresh", !.response = resp,
                                         !.tokenRefreshes = @ + 1]
                       ELSE Finish(call, resp)
    /\ UNCHANGED <<httpClient, memoryAccessToken, calls, serverVars, clientVars, adminVars>>

\* the fetch of POST /api/refresh-token settles
RefreshAnswer(answer) ==
    /\ call.pc = "refresh"
    /\ IF answer \in AccessTokens
       THEN /\ memoryAccessToken' = answer
            /\ call' = PerformRequest([call EXCEPT !.refresh = "ok"], answer, "afterRefresh")
       ELSE /\ UNCHANGED memoryAccessToken
            /\ call' = Finish([call EXCEPT !.refresh = answer], call.response)
    /\ UNCHANGED <<httpClient, csrfToken, calls, serverVars, clientVars, adminVars>>

\* setApiAccessToken called by the AuthContext (login, logout)
SetApiAccessToken(token) ==
    /\ token # memoryAccessToken
    /\ memoryAccessToken' = token
    /\ UNCHANGED <<httpClient, csrfToken, call, calls, serverVars, clientVars, adminVars>>

----------------------------------------------------------------------------
(* The Cart component *)

\* the logged-in user of the cart
CartUser == "u1"

\* the products of the cart lines: unit price, stock and optional bulk rule
Products ==
    [a |-> [price |-> 6000, stock |-> 1, bulkRule |-> <<>>],
     b |-> [price |-> 1000, stock |-> 2, bulkRule |-> <<[qty |-> 2, price |-> 1500]>>]]

LineOrder == <<"a", "b">>

TIERED_COUPONS ==
    << [code |-> "NEPAL100", threshold |-> 8000],
       [code |-> "ABOVE2500", threshold |-> 2500],
       [code |-> "ABOVE2000", threshold |-> 2000] >>

\* state.cart.length
CartLength(c) == Cardinality({l \in DOMAIN c : c[l] > 0})

\* sub: the forEach accumulation of item.price * item.quantity
Subtotal(c) ==
    LET f[n \in 0..Len(LineOrder)] ==
          IF n = 0 THEN 0
          ELSE f[n - 1] + Products[LineOrder[n]].price * c[LineOrder[n]]
    IN  f[Len(LineOrder)]

\* bDisc: regularCost - bulkCost summed over the lines with a bulk rule
\* (amounts are whole rupees, so toFixed(2) changes nothing)
BulkDiscount(c) ==
    LET line(l) ==
          IF c[l] > 0 /\ Len(Products[l].bulkRule) > 0
          THEN LET rule == Products[l].bulkRule[1]
                   bundles == c[l] \div rule.qty
                   remainder == c[l] % rule.qty
                   regularCost == c[l] * Products[l].price
                   bulkCost == bundles * rule.price + remainder * Products[l].price
               IN  regularCost - bulkCost
          ELSE 0
        f[n \in 0..Len(LineOrder)] ==
          IF n = 0 THEN 0 ELSE f[n - 1] + line(LineOrder[n])
    IN  f[Len(LineOrder)]

NetAmount(c) == Subtotal(c) - BulkDiscount(c)

IsTiered(code) == \E i \in 1..Len(TIERED_COUPONS) : TIERED_COUPONS[i].code = code

\* appliedCoupons.some(c => c.code === code)
HasCode(applied, code) == \E i \in 1..Len(applied) : applied[i].code = code

\* mutant: the tiers are scanned for a threshold strictly below the subtotal
TargetTierCoupon_Strict(subtotal) ==
    LET hits == {i \in 1..Len(TIERED_COUPONS) : subtotal > TIERED_COUPONS[i].threshold}
    IN  IF hits = {} THEN ""
        ELSE TIERED_COUPONS[CHOOSE i \in hits : \A j \in hits : i <= j].code

\* TIERED_COUPONS.find(c => subtotal >= c.threshold): its code, "" when undefined
TargetTierCoupon(subtotal) ==
    LET hits == {i \in 1..Len(TIERED_COUPONS) : subtotal >= TIERED_COUPONS[i].threshold}
    IN  IF hits = {} THEN ""
        ELSE TIERED_COUPONS[CHOOSE i \in hits : \A j \in hits : i <= j].code

\* appliedCoupons.find(c => TIERED_COUPONS.some(tc => tc.code === c.code)):
\* its code, "" when undefined
ActiveTierCoupon(applied) ==
    LET hits == {i \in 1..Len(applied) : IsTiered(applied[i].code)}
    IN  IF hits = {} THEN ""
        ELSE applied[CHOOSE i \in hits : \A j \in hits : i <= j].code

NotTiered(c) == ~IsTiered(c.code)

\* mutant: the filter drops every coupon, not only the tiered ones
WithoutTiered_All(applied) == SubSeq(applied, 1, 0)

\* prev.filter(c => !TIERED_COUPONS.some(tc => tc.code === c.code))
WithoutTiered(applied) == SelectSeq(applied, NotTiered)

\* state.coupons.find(c => c.type === 'FIRST_ORDER'): its code, "" when undefined
FirstOrderCoupon(list) ==
    LET hits == {i \in 1..Len(list) : list[i].type = "FIRST_ORDER"}
    IN  IF hits = {} THEN ""
        ELSE list[CHOOSE i \in hits : \A j \in hits : i <= j].code

\* GET /api/coupons: the active coupons
GetCoupons(cps) ==
    LET active(c) == c \in DOMAIN cps /\ cps[c].isActive
        doc(c) == [code |-> c, discountAmount |-> cps[c].discountAmount,
                   minOrderAmount |-> cps[c].minOrderAmount, type |-> cps[c].type,
                   targetUsername |-> cps[c].targetUsername]
        f[n \in 0..Len(CouponOrder)] ==
          IF n = 0 THEN <<>>
          ELSE IF active(CouponOrder[n]) THEN Append(f[n - 1], doc(CouponOrder[n]))
               ELSE f[n - 1]
    IN  f[Len(CouponOrder)]

\* mutant: the validation is answered by the earlier server's route, which
\* does not read usedBy
Validate_Earlier(code, orderTotal) ==
    ValidateCouponEarlier(coupons, code, orderTotal)

\* mockApi.validateCoupon(code, orderTotal) sent by the cart's user
Validate(code, orderTotal) ==
    ValidateCoupon(coupons, orders, CartUser, code, orderTotal)

\* { code: result.coupon.code, discount: result.coupon.discountAmount }
AppliedEntry(res) == [code |-> res.coupon.code, discount |-> res.coupon.discountAmount]

\* the component's state as one value; dirty: a dependency of the auto-apply
\* effect changed since the effect last ran
Cur ==
    [cart |-> cart, appliedCoupons |-> appliedCoupons, couponCode |-> couponCode,
     hasPlacedOrder |-> hasPlacedOrder, stateCoupons |-> stateCoupons,
     usedSpecialCoupons |-> usedSpecialCoupons, manualRequests |-> manualRequests,
     passes |-> passes, dirty |-> FALSE]

\* the coupon of the closure's state.coupons that handleApplyCoupon marks as a
\* used gift once code is applied
IsUnusedGift(st, code) ==
    /\ \E i \in 1..Len(st.stateCoupons) :
          /\ st.stateCoupons[i].code = ToUpperCase(code)
          /\ st.stateCoupons[i].targetUsername # ""
          /\ TrimLower(st.stateCoupons[i].targetUsername) = TrimLower(Username[CartUser])
    /\ ~Includes(st.usedSpecialCoupons, ToUpperCase(code))

\* handleApplyCoupon up to its await: "" and an already applied code return
\* early; otherwise the validation request leaves with the render's subtotal
ApplyCouponSync(st, codeOverride) ==
    LET codeToValidate == IF codeOverride # "" THEN codeOverride ELSE st.couponCode
    IN  IF codeToValidate = "" THEN st
        ELSE IF HasCode(st.appliedCoupons, codeToValidate) THEN st
        ELSE [st EXCEPT !.manualRequests = @ (+) SetToBag({
                 [code |-> codeToValidate, total |-> Subtotal(st.cart),
                  gift |-> IsUnusedGift(st, codeToValidate)]})]

\* mutant: the tier replacement appends without removing the other tiers
ApplyTier_Append(applied, entry) == Append(applied, entry)

\* setAppliedCoupons(prev => [...cleaned, target]) of the tiered logic
ApplyTier(applied, entry) == Append(WithoutTiered(applied), entry)

\* mutant: a tiered coupon stays applied when no tier qualifies
TieredLogic_Keep(st, subtotal, active) ==
    LET target == TargetTierCoupon(subtotal) IN
    IF target # "" /\ active # target
    THEN [st EXCEPT !.passes = @ (+) SetToBag({
             [stage |-> "tier", code |-> target, total |-> subtotal,
              active |-> ""]})]
    ELSE st

\* part 3 of checkAutoApply, run with the subtotal and the active tier of
\* the render that started the invocation; st is the latest state
TieredLogic(st, subtotal, active) ==
    LET target == TargetTierCoupon(subtotal) IN
    IF target # ""
    THEN IF active # target
         THEN [st EXCEPT !.passes = @ (+) SetToBag({
                  [stage |-> "tier", code |-> target, total |-> subtotal,
                   active |-> ""]})]
         ELSE st
    ELSE IF active # ""
         THEN [st EXCEPT !.appliedCoupons = WithoutTiered(@), !.dirty = TRUE]
         ELSE st

\* one run of the auto-apply effect up to its first await
CheckAutoApplySync(st) ==
    IF CartLength(st.cart) = 0 THEN st
    ELSE
    LET subtotal == Subtotal(st.cart)
        active == ActiveTierCoupon(st.appliedCoupons)
        s1 == IF autoApplyNav # "" /\ ~HasCode(st.appliedCoupons, autoApplyNav)
              THEN ApplyCouponSync(st, autoApplyNav)
              ELSE st
        firstOrderCoupon == FirstOrderCoupon(st.stateCoupons)
    IN  IF ~st.hasPlacedOrder /\ firstOrderCoupon # ""
           /\ ~HasCode(st.appliedCoupons, firstOrderCoupon)
        THEN [s1 EXCEPT !.passes = @ (+) SetToBag({
                 [stage |-> "fo", code |-> firstOrderCoupon, total |-> subtotal,
                  active |-> active]})]
        ELSE TieredLogic(s1, subtotal, active)

RECURSIVE Rerender(_)
\* mutant: the effect runs after every render, changed dependencies or not
Rerender_EveryRender(st) ==
    LET s == CheckAutoApplySync([st EXCEPT !.dirty = FALSE])
    IN  IF s.dirty THEN Rerender(s) ELSE s

\* the re-render after a handler: the effect runs again while one of its
\* dependencies has changed
Rerender(st) ==
    IF st.dirty THEN Rerender(CheckAutoApplySync([st EXCEPT !.dirty = FALSE]))
    ELSE st

----------------------------------------------------------------------------
(* Bounds of the cart *)

MaxInFlight == 2   \* validation requests in flight
MaxApplied == 2    \* length of the applied-coupon list

Fits(st) ==
    /\ BagCardinality(st.manualRequests) + BagCardinality(st.passes) <= MaxInFlight
    /\ Len(st.appliedCoupons) <= MaxApplied

\* the component shows the state s
Renders(s) ==
    /\ cart' = s.cart
    /\ appliedCoupons' = s.appliedCoupons
    /\ couponCode' = s.couponCode
    /\ hasPlacedOrder' = s.hasPlacedOrder
    /\ stateCoupons' = s.stateCoupons
    /\ usedSpecialCoupons' = s.usedSpecialCoupons
    /\ manualRequests' = s.manualRequests
    /\ passes' = s.passes
    /\ UNCHANGED <<autoApplyNav, serverVars, adminVars, httpVars>>

\* the state after a handler and its re-render
Becomes(st) ==
    \E s \in {Rerender(st)} : Fits(s) /\ Renders(s) /\ deliveries' = 0

----------------------------------------------------------------------------
(* Handlers of the Cart component *)

\* the cart reducer (StoreContext): UPDATE_CART_QTY; a quantity below 1
\* either removes the line or leaves it at 1
UpdateCartQty(c, l, qty) ==
    IF qty >= 1 THEN {[c EXCEPT ![l] = qty]}
    ELSE {[c EXCEPT ![l] = 0], c}

\* the cart reducer (StoreContext): REMOVE_FROM_CART
RemoveFromCart(c, l) == [c EXCEPT ![l] = 0]

\* handleClearAllCoupons
ClearAllCoupons(st) == [st EXCEPT !.appliedCoupons = <<>>, !.dirty = TRUE]

\* the minus button of a cart line
QuantityMinus(l) ==
    /\ cart[l] > 0
    /\ \E c \in UpdateCartQty(cart, l, cart[l] - 1) :
          Becomes(ClearAllCoupons([Cur EXCEPT !.cart = c]))

\* the plus button of a cart line (disabled at isMaxStock)
QuantityPlus(l) ==
    /\ cart[l] > 0
    /\ ~(cart[l] >= Products[l].stock)
    /\ \E c \in UpdateCartQty(cart, l, cart[l] + 1) :
          Becomes([Cur EXCEPT !.cart = c, !.dirty = TRUE])

\* the remove button of a cart line
RemoveLine(l) ==
    /\ cart[l] > 0
    /\ Becomes(ClearAllCoupons([Cur EXCEPT !.cart = RemoveFromCart(cart, l)]))

\* the text typed into the promo code input
TypedCodes == {"save50"}

\* the coupon cards whose Apply button is pressed
CardCodes == {"ABOVE2000", "SAVE50"}

\* onChange of the promo code input
SetCouponCode(text) ==
    /\ CartLength(cart) > 0
    /\ text # couponCode
    /\ Becomes([Cur EXCEPT !.couponCode = text, !.dirty = TRUE])

\* the Apply button next to the input (no override) and the Apply buttons
\* of the coupon cards (override: the card's code, shown while not applied)
HandleApplyCoupon(codeOverride) ==
    /\ CartLength(cart) > 0
    /\ codeOverride # "" =>
          /\ \E i \in 1..Len(stateCoupons) :
                /\ stateCoupons[i].code = codeOverride
                /\ stateCoupons[i].type # "FIRST_ORDER" \/ ~hasPlacedOrder
          /\ ~HasCode(appliedCoupons, codeOverride)
    /\ ApplyCouponSync(Cur, codeOverride) # Cur
    /\ Becomes(ApplyCouponSync(Cur, codeOverride))

\* the remove button of an applied coupon
HandleRemoveCoupon(codeToRemove) ==
    /\ CartLength(cart) > 0
    /\ HasCode(appliedCoupons, codeToRemove)
    /\ LET keep(c) == c.code # codeToRemove
       IN  Becomes([Cur EXCEPT !.appliedCoupons = SelectSeq(@, keep), !.dirty = TRUE])

\* the order-history effect: setHasPlacedOrder(true) once orders are found
CheckHistory ==
    /\ ~hasPlacedOrder
    /\ OrderCount(orders, CartUser) > 0
    /\ Becomes([Cur EXCEPT !.hasPlacedOrder = TRUE, !.dirty = TRUE])

\* the coupon fetch effect: dispatch SET_COUPONS
FetchCoupons ==
    /\ stateCoupons # GetCoupons(coupons)
    /\ Becomes([Cur EXCEPT !.stateCoupons = GetCoupons(coupons), !.dirty = TRUE])

\* handleApplyCoupon after its await: the state it leaves
AfterApplyCoupon(req) ==
    LET result == Validate(req.code, req.total)
        s0 == [Cur EXCEPT !.manualRequests = @ (-) SetToBag({req})]
    IN  IF result.isValid
        THEN [s0 EXCEPT
                !.appliedCoupons = Append(@, AppliedEntry(result)),
                !.couponCode = "",
                !.usedSpecialCoupons = IF req.gift THEN Append(@, result.coupon.code)
                                       ELSE @,
                !.dirty = TRUE]
        ELSE s0

\* the response to a validation request of handleApplyCoupon
ApplyCouponResponse(req) ==
    /\ BagIn(req, manualRequests)
    /\ Becomes(AfterApplyCoupon(req))

\* checkAutoApply after the await of the first-order validation, up to the
\* await of the tiered validation: the state it leaves
AfterFirstOrder(p) ==
    LET result == Validate(p.code, p.total)
        s0 == [Cur EXCEPT !.passes = @ (-) SetToBag({p})]
        s1 == IF result.isValid
              THEN [s0 EXCEPT !.appliedCoupons = Append(@, AppliedEntry(result)),
                              !.dirty = TRUE]
              ELSE s0
    IN  TieredLogic(s1, p.total, p.active)

\* the response to the first-order validation of an evaluation pass
FirstOrderResponse(p) ==
    /\ BagIn(p, passes)
    /\ p.stage = "fo"
    /\ Becomes(AfterFirstOrder(p))

\* mutant: a refused target removes the tiered coupons that are applied
AfterTiered_Drop(p) ==
    LET result == Validate(p.code, p.total)
        s0 == [Cur EXCEPT !.passes = @ (-) SetToBag({p})]
    IN  IF result.isValid
        THEN [s0 EXCEPT !.appliedCoupons = ApplyTier(@, AppliedEntry(result)),
                        !.dirty = TRUE]
        ELSE [s0 EXCEPT !.appliedCoupons = WithoutTiered(@), !.dirty = TRUE]

\* checkAutoApply after the await of the tiered validation: the state it
\* leaves
AfterTiered(p) ==
    LET result == Validate(p.code, p.total)
        s0 == [Cur EXCEPT !.passes = @ (-) SetToBag({p})]
    IN  IF result.isValid
        THEN [s0 EXCEPT !.appliedCoupons = ApplyTier(@, AppliedEntry(result)),
                        !.dirty = TRUE]
        ELSE s0

\* the response to the tiered validation of an evaluation pass
TieredResponse(p) ==
    /\ BagIn(p, passes)
    /\ p.stage = "tier"
    /\ Becomes(AfterTiered(p))

\* the cards of the Special Gifts section: the coupons targeted at the
\* cart's user (names trimmed and lower-cased)
SpecialGiftCards(list) ==
    LET mine(c) == /\ c.targetUsername # "" /\ Username[CartUser] # ""
                   /\ TrimLower(c.targetUsername) = TrimLower(Username[CartUser])
    IN  SelectSeq(list, mine)

\* the cards of the Available Coupons section
AvailableCards(list, placed) ==
    LET open(c) == c.targetUsername = "" /\ (c.type # "FIRST_ORDER" \/ ~placed)
    IN  SelectSeq(list, open)

----------------------------------------------------------------------------
(* The cart specification *)

Carts0 == {c \in [DOMAIN Products -> 0..2] : \A l \in DOMAIN Products : c[l] <= Products[l].stock}

\* a user without orders, or a returning user whose one order redeemed NEPAL100
ReturningCoupons == [CouponDocs EXCEPT !["NEPAL100"].usedBy = <<CartUser>>]

ReturningOrders ==
    << [user |-> CartUser, items |-> <<[id |-> "p1", price |-> 8000, quantity |-> 1]>>,
        couponCodes |-> <<"NEPAL100">>, totalAmount |-> 8000, discountApplied |-> 100,
        deliveryCharge |-> 0, finalAmount |-> 7900, status |-> "Pending"] >>

\* the mount of the Cart component: the first render and its effect; the
\* new user may arrive through a link that carries location.state.autoApply
Init ==
    /\ server = "current"
    /\ \/ coupons = CouponDocs /\ orders = <<>> /\ autoApplyNav \in {"", "SAVE50"}
       \/ coupons = ReturningCoupons /\ orders = ReturningOrders /\ autoApplyNav = ""
    /\ stock = InitialStock
    /\ userMobile = [u \in Users |-> ""]
    /\ txn = <<>>
    /\ started = 0
    /\ lastValidation = NoValidation
    /\ notifications = <<>>
    /\ couponCode = ""
    /\ hasPlacedOrder = FALSE
    /\ stateCoupons = <<>>
    /\ usedSpecialCoupons = <<>>
    /\ \E c \in Carts0 :
          LET s == Rerender([cart |-> c, appliedCoupons |-> <<>>, couponCode |-> "",
                             hasPlacedOrder |-> FALSE, stateCoupons |-> <<>>,
                             usedSpecialCoupons |-> <<>>, manualRequests |-> EmptyBag,
                             passes |-> EmptyBag, dirty |-> TRUE])
          IN  /\ cart = s.cart
              /\ appliedCoupons = s.appliedCoupons
              /\ manualRequests = s.manualRequests
              /\ passes = s.passes
    /\ AdminIdle
    /\ HttpIdle
    /\ deliveries = 0

Next ==
    \/ \E l \in DOMAIN Products : QuantityMinus(l)
    \/ \E l \in DOMAIN Products : QuantityPlus(l)
    \/ \E l \in DOMAIN Products : RemoveLine(l)
    \/ \E text \in TypedCodes \cup {""} : SetCouponCode(text)
    \/ \E code \in {""} \cup CardCodes : HandleApplyCoupon(code)
    \/ \E code \in DOMAIN CouponDocs : HandleRemoveCoupon(code)
    \/ CheckHistory
    \/ FetchCoupons
    \/ \E req \in BagToSet(manualRequests) : ApplyCouponResponse(req)
    \/ \E p \in BagToSet(passes) : FirstOrderResponse(p)
    \/ \E p \in BagToSet(passes) : TieredResponse(p)

Spec == Init /\ [][Next]_vars

----------------------------------------------------------------------------
(* The server specification *)

InitOrders ==
    /\ server \in {"current", "earlier"}
    /\ coupons = CouponDocs
    /\ stock = InitialStock
    /\ orders = <<>>
    /\ userMobile = [u \in Users |-> ""]
    /\ txn = [r \in Slots |-> IdleTxn]
    /\ started = 0
    /\ lastValidation = NoValidation
    /\ notifications = <<>>
    /\ autoApplyNav = ""
    /\ cart = [l \in DOMAIN Products |-> 0]
    /\ appliedCoupons = <<>>
    /\ couponCode = ""
    /\ hasPlacedOrder = FALSE
    /\ stateCoupons = <<>>
    /\ usedSpecialCoupons = <<>>
    /\ manualRequests = EmptyBag
    /\ passes = EmptyBag
    /\ AdminIdle
    /\ HttpIdle
    /\ deliveries = 0

NextOrders ==
    \/ \E r \in Slots, u \in Users : \E body \in BodiesOf[u] : BeginOrder(r, u, body)
    \/ \E r \in Slots : MarkCouponsUsed(r)
    \/ \E r \in Slots : SaveOrder(r)
    \/ \E r \in Slots : UpdateStock(r)
    \/ \E r \in Slots : UpdateMobile(r)
    \/ \E r \in Slots : CommitTransaction(r)
    \/ \E r \in Slots : AbortTransaction(r)
    \/ \E u \in Users, code \in ValidateCodes : ValidateRequest(u, code)

OrderSpec == InitOrders /\ [][NextOrders]_vars

----------------------------------------------------------------------------
(* Claims about order submission and the usage ledger *)

StoredOrders == 1..Len(orders)

\* the sum of price * quantity over the items, front to back
ItemsSum(items) ==
    LET f[n \in 0..Len(items)] ==
          IF n = 0 THEN 0 ELSE f[n - 1] + items[n].quantity * items[n].price
    IN  f[Len(items)]

\* C3: every stored order's totalAmount is the sum of price * quantity over
\* its items, and two stored orders submitted with the same items, discount
\* and deliveryCharge have the same totalAmount and finalAmount, whatever
\* total and finalTotal the client sent.
C3_TotalIgnoresClient ==
    /\ \A i \in StoredOrders : orders[i].totalAmount = ItemsSum(orders[i].items)
    /\ \A i, j \in StoredOrders :
          (/\ orders[i].items = orders[j].items
           /\ orders[i].discountApplied = orders[j].discountApplied
           /\ orders[i].deliveryCharge = orders[j].deliveryCharge)
          => (/\ orders[i].totalAmount = orders[j].totalAmount
              /\ orders[i].finalAmount = orders[j].finalAmount)

\* C4: every stored order satisfies
\* finalAmount = totalAmount - discountApplied + deliveryCharge.
C4_FinalAmountRoundTrip ==
    \A i \in StoredOrders :
        orders[i].finalAmount =
            orders[i].totalAmount - orders[i].discountApplied + orders[i].deliveryCharge

\* the quantity of product p over all stored orders
OrderedQty(p) ==
    LET inOrder(o) ==
          LET g[n \in 0..Len(o.items)] ==
                IF n = 0 THEN 0
                ELSE g[n - 1] + (IF o.items[n].id = p THEN o.items[n].quantity ELSE 0)
          IN  g[Len(o.items)]
        f[n \in 0..Len(orders)] ==
          IF n = 0 THEN 0 ELSE f[n - 1] + inOrder(orders[n])
    IN  f[Len(orders)]

\* C5: order submission is all-or-nothing. At every moment the committed
\* collections show the writes of exactly the stored orders: stock has
\* dropped by the quantities of the stored orders and by nothing else, a
\* user is in a coupon's usedBy only through a stored order of that user
\* carrying that code, a user's mobile number is set only by a stored order
\* of that user; and (current server) every stored order has marked its
\* coupons and set its sender's mobile number.
C5_AllOrNothing ==
    /\ \A p \in ProductIds : stock[p] = InitialStock[p] - OrderedQty(p)
    /\ \A c \in DOMAIN coupons : \A u \in Users :
          Includes(coupons[c].usedBy, u)
          => \E i \in StoredOrders :
                orders[i].user = u /\ Includes(orders[i].couponCodes, c)
    /\ \A u \in Users :
          userMobile[u] # "" => \E i \in StoredOrders : orders[i].user = u
    /\ \A i \in StoredOrders :
          /\ MobileOf[orders[i].user] # "" => userMobile[orders[i].user] # ""
          /\ server = "current" =>
                \A c \in DOMAIN coupons :
                    Includes(orders[i].couponCodes, c)
                    => Includes(coupons[c].usedBy, orders[i].user)

\* C5 witness: of two finished requests one committed an order with a
\* coupon and the other was aborted
C5_Witness ==
    /\ started = 2 /\ Len(orders) = 1
    /\ \A r \in Slots : txn[r].pc = "idle"
    /\ Includes(orders[1].couponCodes, "SAVE50")
    /\ stock["p1"] = 1

\* C6: every product's stock is >= 0.
C6_StockNonNegative == \A p \in ProductIds : stock[p] >= 0

\* C7: for every coupon and user at most one stored order of the user
\* carries the coupon in its couponCodes.
C7_RedeemedAtMostOnce ==
    \A c \in DOMAIN coupons : \A u \in Users :
        Cardinality({i \in StoredOrders :
                        /\ orders[i].user = u
                        /\ Includes(orders[i].couponCodes, c)}) <= 1

----------------------------------------------------------------------------
(* Claims about the applied-coupon list and the tiered auto-apply *)

AppliedIndexes == 1..Len(appliedCoupons)

\* C1: the applied-coupon list holds at most one of the tiered codes
\* NEPAL100, ABOVE2500, ABOVE2000.
C1_AtMostOneTiered ==
    Cardinality({i \in AppliedIndexes : IsTiered(appliedCoupons[i].code)}) <= 1

\* C2: no coupon code appears more than once in the applied-coupon list.
C2_NoDuplicateCode ==
    \A i, j \in AppliedIndexes :
        i # j => appliedCoupons[i].code # appliedCoupons[j].code

\* the tier table as the claim states it: the highest threshold that the
\* amount reaches, "" below 2000
HighestTier(amount) ==
    IF amount >= 8000 THEN "NEPAL100"
    ELSE IF amount >= 2500 THEN "ABOVE2500"
    ELSE IF amount >= 2000 THEN "ABOVE2000"
    ELSE ""

TierPasses == {p \in BagToSet(passes) : p.stage = "tier"}

Threshold(code) ==
    LET i == CHOOSE k \in 1..Len(TIERED_COUPONS) : TIERED_COUPONS[k].code = code
    IN  TIERED_COUPONS[i].threshold

\* a tier below the tier of code is applied
LowerTierApplied(applied, code) ==
    \E i \in 1..Len(applied) :
        /\ IsTiered(applied[i].code)
        /\ Threshold(applied[i].code) < Threshold(code)

\* the evaluation pass p targets a higher tier for the current cart while
\* a lower tier is applied
UpgradePending(p) ==
    /\ p.stage = "tier"
    /\ p.total = Subtotal(cart)
    /\ LowerTierApplied(appliedCoupons, p.code)

\* C10 as stated: when a lower-tier coupon is applied and the amount has
\* reached a higher tier's threshold, the completion of the evaluation pass
\* leaves the higher-tier coupon applied and no lower-tier coupon applied.
C10_UpgradeAlways ==
    [][\A p \in BagToSet(passes) :
          (UpgradePending(p) /\ TieredResponse(p))
          => (/\ HasCode(appliedCoupons', p.code)
              /\ ~LowerTierApplied(appliedCoupons', p.code))]_vars

\* C10 amended: the same, provided the validation of the higher-tier
\* coupon succeeds.
C10_UpgradeWhenValid ==
    [][\A p \in BagToSet(passes) :
          (UpgradePending(p) /\ Validate(p.code, p.total).isValid /\ TieredResponse(p))
          => (/\ HasCode(appliedCoupons', p.code)
              /\ ~LowerTierApplied(appliedCoupons', p.code))]_vars

\* C10 witness: ABOVE2500 is applied, the subtotal has reached 8000 and the
\* evaluation pass has sent the request that validates NEPAL100
C10_Witness ==
    \E p \in BagToSet(passes) :
        /\ UpgradePending(p)
        /\ p.code = "NEPAL100"
        /\ HasCode(appliedCoupons, "ABOVE2500")
        /\ Validate(p.code, p.total).isValid

NoTieredApplied ==
    \A i \in AppliedIndexes : ~IsTiered(appliedCoupons[i].code)

\* an evaluation pass is still waiting for its first-order validation
FirstOrderPending == \E p \in BagToSet(passes) : p.stage = "fo"

\* C11 as stated with the spec's amount: when the cart is non-empty, its
\* netAmount is below every tier threshold (below 2000) and every
\* validation response has been delivered, no tiered coupon is applied.
C11_NoTierBelowNetAmount ==
    (/\ CartLength(cart) > 0
     /\ NetAmount(cart) < 2000
     /\ passes = EmptyBag /\ manualRequests = EmptyBag)
    => NoTieredApplied

\* C11 amended: when the cart is non-empty and its subtotal is below 2000,
\* no tiered coupon is applied once the evaluation pass has run, that is
\* unless a pass is still waiting for its first-order validation.
C11_NoTierBelowSubtotal ==
    (/\ CartLength(cart) > 0
     /\ Subtotal(cart) < 2000
     /\ ~FirstOrderPending)
    => NoTieredApplied

\* C11 witness: the cart fell below 2000 after a tiered validation was
\* sent for 2000 or more; the pass has run and no tiered coupon is applied
\* although the response for the old amount is still to come
C11_Witness ==
    /\ CartLength(cart) > 0
    /\ Subtotal(cart) < 2000
    /\ ~FirstOrderPending
    /\ NoTieredApplied
    /\ \E p \in TierPasses : p.total >= 2000

\* C12: every cart mutation (removing a line, decreasing or increasing a
\* quantity) empties the whole applied-coupon list; the auto-apply can
\* re-populate it only through validation responses, which are later steps.
C12_MutationClearsAll ==
    [][cart' # cart => appliedCoupons' = <<>>]_vars

AppliedCodes(applied) == {applied[i].code : i \in 1..Len(applied)}

\* C13: the response to a validation request that was issued under another
\* cart state (another subtotal than the current one) adds no coupon to the
\* applied-coupon list.
C13_StaleResponseDiscarded ==
    [][/\ \A req \in BagToSet(manualRequests) :
            (req.total # Subtotal(cart) /\ ApplyCouponResponse(req))
            => AppliedCodes(appliedCoupons') \subseteq AppliedCodes(appliedCoupons)
       /\ \A p \in BagToSet(passes) :
            (p.total # Subtotal(cart)
             /\ (FirstOrderResponse(p) \/ TieredResponse(p)))
            => AppliedCodes(appliedCoupons') \subseteq AppliedCodes(appliedCoupons)]_vars

\* every validation response has been delivered
AllDelivered == passes = EmptyBag /\ manualRequests = EmptyBag

\* the cart's user has no stored order, the catalog the cart holds has a
\* FIRST_ORDER coupon that validates, and the subtotal has a tiered target
\* that validates
FirstOrderAndTierQualify ==
    /\ CartLength(cart) > 0
    /\ OrderCount(orders, CartUser) = 0
    /\ FirstOrderCoupon(stateCoupons) # ""
    /\ Validate(FirstOrderCoupon(stateCoupons), Subtotal(cart)).isValid
    /\ TargetTierCoupon(Subtotal(cart)) # ""
    /\ Validate(TargetTierCoupon(Subtotal(cart)), Subtotal(cart)).isValid

BothApplied ==
    (AllDelivered /\ FirstOrderAndTierQualify)
    => /\ HasCode(appliedCoupons, FirstOrderCoupon(stateCoupons))
       /\ HasCode(appliedCoupons, TargetTierCoupon(Subtotal(cart)))

----------------------------------------------------------------------------
(* The cart's validation call against varied catalogs and order histories *)

\* coupons created by POST /api/admin/coupons with a targetUsername or the
\* type SPECIAL_GIFT
GiftDoc(amount, minimum, type, target) ==
    [CouponDoc(amount, minimum, type) EXCEPT !.targetUsername = target]

GiftDocs ==
    [GIFT      |-> GiftDoc(30, 5000, "SPECIAL_GIFT", " ALICE "),
     GIFTBOB   |-> GiftDoc(30, 5000, "REGULAR", "bob"),
     FIRSTGIFT |-> GiftDoc(30, 0, "FIRST_ORDER", "Alice"),
     SPECIAL   |-> GiftDoc(30, 5000, "SPECIAL_GIFT", "")]

CatalogWithGifts == GiftDocs @@ CouponDocs

\* the catalog, and the catalog after GIFT was redeemed, expired or
\* deactivated
Catalogs ==
    {CatalogWithGifts,
     [CatalogWithGifts EXCEPT !["GIFT"].usedBy = <<"u1">>],
     [CatalogWithGifts EXCEPT !["GIFT"].expired = TRUE],
     [CatalogWithGifts EXCEPT !["GIFT"].isActive = FALSE]}

PastOrder(u) ==
    [user |-> u, items |-> <<[id |-> "p1", price |-> 100, quantity |-> 2]>>,
     couponCodes |-> <<>>, totalAmount |-> 200, discountApplied |-> 0,
     deliveryCharge |-> 0, finalAmount |-> 200, status |-> "Pending"]

OrderHistories == {<<>>} \cup {<<PastOrder(u)>> : u \in Users}

\* mutant: the order total sent is the cart's netAmount
ValidateFromCart_Net(u, code) ==
    /\ \E query \in OrderCountQueries :
         LET res == ValidateCounted(coupons, CountDocuments(orders, u, query),
                                    u, code, NetAmount(cart))
         IN lastValidation' = [user |-> u, code |-> code,
                               isValid |-> res.isValid, error |-> res.error]
    /\ UNCHANGED <<server, coupons, stock, orders, userMobile, txn, started,
                   notifications, clientVars, adminVars, httpVars>>

\* handleApplyCoupon's request for code by the cart of user u, and the
\* route's response: the order total sent is the cart's subtotal
ValidateFromCart(u, code) ==
    /\ \E query \in OrderCountQueries :
         LET res == ValidateCounted(coupons, CountDocuments(orders, u, query),
                                    u, code, Subtotal(cart))
         IN lastValidation' = [user |-> u, code |-> code,
                               isValid |-> res.isValid, error |-> res.error]
    /\ UNCHANGED <<server, coupons, stock, orders, userMobile, txn, started,
                   notifications, clientVars, adminVars, httpVars>>

InitValidate ==
    /\ server = "current"
    /\ coupons \in Catalogs
    /\ orders \in OrderHistories
    /\ cart \in {c \in Carts0 : CartLength(c) > 0}
    /\ stock = InitialStock
    /\ userMobile = [u \in Users |-> ""]
    /\ txn = <<>>
    /\ started = 0
    /\ lastValidation = NoValidation
    /\ notifications = <<>>
    /\ autoApplyNav = ""
    /\ appliedCoupons = <<>>
    /\ couponCode = ""
    /\ hasPlacedOrder = FALSE
    /\ stateCoupons = <<>>
    /\ usedSpecialCoupons = <<>>
    /\ manualRequests = EmptyBag
    /\ passes = EmptyBag
    /\ AdminIdle
    /\ HttpIdle
    /\ deliveries = 0

NextValidate ==
    \/ \E u \in Users, code \in DOMAIN CatalogWithGifts : ValidateFromCart(u, code)
    \/ FetchCoupons

ValidateSpec == InitValidate /\ [][NextValidate]_vars

----------------------------------------------------------------------------
(* Claims about POST /api/coupons/validate *)

\* C15: a validation of the FIRST_ORDER coupon is accepted exactly when the
\* requesting user has no stored order, whatever orders other users have;
\* when the user has an order it is refused with the first-order-only
\* reason (the routes of services/api.ts and part_006).
C15_FirstOrderOwnOrdersOnly ==
    [][\A u \in Users :
         (server = "current" /\ ValidateRequest(u, "WELCOME"))
         => /\ lastValidation'.isValid <=> OrderCount(orders, u) = 0
            /\ OrderCount(orders, u) > 0
               => lastValidation'.error = "This coupon is valid for first order only."]_vars

\* the coupon document the last validation was about
Validated == coupons[lastValidation.code]

\* the last validation was about a targeted coupon that is active,
\* unexpired and not redeemed by the requester
TargetedAndOpen ==
    /\ lastValidation.code \in DOMAIN coupons
    /\ Validated.targetUsername # ""
    /\ Validated.isActive /\ ~Validated.expired
    /\ ~Includes(Validated.usedBy, lastValidation.user)

\* the user each targetUsername designates once trimmed and lower-cased:
\* " ALICE " and "Alice" are Alice (u1), "bob" is bob (u2)
TargetUser == [GIFT |-> "u1", GIFTBOB |-> "u2", FIRSTGIFT |-> "u1"]

NamesMatch == TargetUser[lastValidation.code] = lastValidation.user

\* C16 as stated: for a targeted coupon that is active, unexpired and not
\* redeemed by the requester, validation succeeds if and only if the
\* requester's username equals targetUsername after trimming and
\* lower-casing both, and on mismatch the reason is not-your-coupon.
C16_TargetedIffNameMatches ==
    TargetedAndOpen
    => /\ lastValidation.isValid <=> NamesMatch
       /\ ~NamesMatch =>
            lastValidation.error = "This coupon is not available for your account."

\* C16 amended: the same for targeted coupons whose type is not
\* FIRST_ORDER (a targeted FIRST_ORDER coupon is additionally refused by
\* the first-order count); for every targeted coupon a mismatch is refused
\* with the not-your-coupon reason; no validation changes a usedBy array.
C16_TargetedIffNameMatchesUnlessFirstOrder ==
    [][/\ TargetedAndOpen'
          => /\ Validated'.type # "FIRST_ORDER"
                => (lastValidation'.isValid <=> NamesMatch')
             /\ ~NamesMatch' =>
                  /\ ~lastValidation'.isValid
                  /\ lastValidation'.error = "This coupon is not available for your account."
       /\ \A c \in DOMAIN coupons : coupons'[c].usedBy = coupons[c].usedBy]_vars

\* C16 witness: bob was refused Alice's gift, Alice was granted it
C16_Witness ==
    /\ TargetedAndOpen /\ ~NamesMatch
    /\ lastValidation.user = "u2" /\ lastValidation.code = "GIFT"
    /\ ~lastValidation.isValid

\* the last validation was about a coupon that is active, unexpired, not
\* redeemed by the requester and, if targeted, targeted at the requester
ReachesMinimumCheck ==
    /\ lastValidation.code \in DOMAIN coupons
    /\ Validated.isActive /\ ~Validated.expired
    /\ ~Includes(Validated.usedBy, lastValidation.user)
    /\ Validated.targetUsername # "" => NamesMatch

BelowMinimum == lastValidation.error = "Order must be at least the minimum"

MinimumExempt ==
    Validated.targetUsername # "" \/ Validated.type = "SPECIAL_GIFT"

\* C17 as stated: an apply of a non-targeted, non-SPECIAL_GIFT coupon with
\* minOrderAmount M is refused as below-minimum exactly when the cart's
\* netAmount is less than M; a targeted or SPECIAL_GIFT coupon is never
\* refused as below-minimum.
C17_MinimumByNetAmount ==
    ReachesMinimumCheck
    => IF MinimumExempt THEN ~BelowMinimum
       ELSE BelowMinimum <=> NetAmount(cart) < Validated.minOrderAmount

\* C17 amended: the same with the cart's subtotal (the bulk discount not
\* subtracted) in place of netAmount.
C17_MinimumBySubtotal ==
    ReachesMinimumCheck
    => IF MinimumExempt THEN ~BelowMinimum
       ELSE BelowMinimum <=> Subtotal(cart) < Validated.minOrderAmount

\* C17 witness: ABOVE2500 is refused as below-minimum for a cart whose
\* subtotal is 2000
C17_Witness ==
    /\ ReachesMinimumCheck /\ ~MinimumExempt
    /\ lastValidation.code = "ABOVE2500"
    /\ Subtotal(cart) = 2000
    /\ BelowMinimum

----------------------------------------------------------------------------
(* The cart's calculation (useMemo) under cart and coupon changes *)

MaxCoupons == 2    \* coupons applied in the calculation

\* products whose amounts meet the delivery boundaries and whose bulk
\* rules are below and above the regular price of a bundle
PriceProducts ==
    [x |-> [price |-> 1000, stock |-> 3, bulkRule |-> <<>>],
     y |-> [price |-> 999, stock |-> 1, bulkRule |-> <<>>],
     z |-> [price |-> 1, stock |-> 1, bulkRule |-> <<>>],
     w |-> [price |-> 500, stock |-> 1, bulkRule |-> <<>>],
     s |-> [price |-> 20, stock |-> 7, bulkRule |-> <<[qty |-> 6, price |-> 100]>>],
     t |-> [price |-> 10, stock |-> 3, bulkRule |-> <<[qty |-> 2, price |-> 30]>>]]

PriceLineOrder == <<"x", "y", "z", "w", "s", "t">>

\* state.cart: the items with their price, quantity and bulk rule
CartItems(c) ==
    LET f[n \in 0..Len(PriceLineOrder)] ==
          IF n = 0 THEN <<>>
          ELSE LET l == PriceLineOrder[n] IN
               IF c[l] > 0
               THEN Append(f[n - 1], [price |-> PriceProducts[l].price,
                                      quantity |-> c[l],
                                      bulkRule |-> PriceProducts[l].bulkRule])
               ELSE f[n - 1]
    IN  f[Len(PriceLineOrder)]

\* Number(bDisc.toFixed(2)): amounts are whole rupees, which have no
\* third decimal to round
ToFixed2(amount) == amount

\* regularCost - bulkCost of one item
ItemBulkDiscount(item) ==
    IF Len(item.bulkRule) > 0
    THEN LET rule == item.bulkRule[1]
             bundles == item.quantity \div rule.qty
             remainder == item.quantity % rule.qty
             regularCost == item.quantity * item.price
             bulkCost == bundles * rule.price + remainder * item.price
         IN  regularCost - bulkCost
    ELSE 0

\* mutant: the delivery tier is taken from the amount after the coupons
Calculation_AfterCoupons(items, applied) ==
    LET sub[n \in 0..Len(items)] ==
          IF n = 0 THEN 0 ELSE sub[n - 1] + items[n].price * items[n].quantity
        bDisc[n \in 0..Len(items)] ==
          IF n = 0 THEN 0 ELSE bDisc[n - 1] + ItemBulkDiscount(items[n])
        totalDisc[n \in 0..Len(applied)] ==
          IF n = 0 THEN 0 ELSE totalDisc[n - 1] + applied[n].discount
        bulkDiscount == ToFixed2(bDisc[Len(items)])
        netAmount == sub[Len(items)] - bulkDiscount
        paid == netAmount - totalDisc[Len(applied)]
        dCharge == IF paid > 3000 THEN 0
                   ELSE IF paid >= 1000 THEN 25
                   ELSE 50
    IN  [subtotal |-> sub[Len(items)],
         bulkDiscount |-> bulkDiscount,
         deliveryCharge |-> dCharge,
         totalCouponDiscount |-> totalDisc[Len(applied)],
         total |-> netAmount - totalDisc[Len(applied)] + dCharge]

\* the useMemo of the Cart component
Calculation(items, applied) ==
    LET sub[n \in 0..Len(items)] ==
          IF n = 0 THEN 0 ELSE sub[n - 1] + items[n].price * items[n].quantity
        bDisc[n \in 0..Len(items)] ==
          IF n = 0 THEN 0 ELSE bDisc[n - 1] + ItemBulkDiscount(items[n])
        totalDisc[n \in 0..Len(applied)] ==
          IF n = 0 THEN 0 ELSE totalDisc[n - 1] + applied[n].discount
        bulkDiscount == ToFixed2(bDisc[Len(items)])
        netAmount == sub[Len(items)] - bulkDiscount
        dCharge == IF netAmount > 3000 THEN 0
                   ELSE IF netAmount >= 1000 THEN 25
                   ELSE 50
    IN  [subtotal |-> sub[Len(items)],
         bulkDiscount |-> bulkDiscount,
         deliveryCharge |-> dCharge,
         totalCouponDiscount |-> totalDisc[Len(applied)],
         total |-> netAmount - totalDisc[Len(applied)] + dCharge]

\* mutant: the total is displayed as computed
OrderTotalDisplay_Raw(total) == total

\* Math.max(0, total) of the Order Total row
OrderTotalDisplay(total) == IF total > 0 THEN total ELSE 0

\* the plus button of a cart line
PricePlus(l) ==
    /\ cart[l] > 0
    /\ ~(cart[l] >= PriceProducts[l].stock)
    /\ cart' = [cart EXCEPT ![l] = cart[l] + 1]
    /\ UNCHANGED <<serverVars, adminVars, httpVars, autoApplyNav, appliedCoupons, couponCode,
                   hasPlacedOrder, stateCoupons, usedSpecialCoupons,
                   manualRequests, passes, deliveries>>

\* the minus button of a cart line, which also clears the coupons
PriceMinus(l) ==
    /\ cart[l] > 1
    /\ cart' = [cart EXCEPT ![l] = cart[l] - 1]
    /\ appliedCoupons' = <<>>
    /\ UNCHANGED <<serverVars, adminVars, httpVars, autoApplyNav, couponCode, hasPlacedOrder,
                   stateCoupons, usedSpecialCoupons, manualRequests, passes, deliveries>>

\* setAppliedCoupons(prev => [...prev, { code, discount }]) for a validated
\* coupon of the catalog
PriceApply(code) ==
    /\ Len(appliedCoupons) < MaxCoupons
    /\ appliedCoupons' = Append(appliedCoupons,
                                [code |-> code,
                                 discount |-> CouponDocs[code].discountAmount])
    /\ UNCHANGED <<serverVars, adminVars, httpVars, autoApplyNav, cart, couponCode, hasPlacedOrder,
                   stateCoupons, usedSpecialCoupons, manualRequests, passes, deliveries>>

\* handleRemoveCoupon
PriceRemove(codeToRemove) ==
    /\ HasCode(appliedCoupons, codeToRemove)
    /\ LET keep(c) == c.code # codeToRemove
       IN appliedCoupons' = SelectSeq(appliedCoupons, keep)
    /\ UNCHANGED <<serverVars, adminVars, httpVars, autoApplyNav, cart, couponCode, hasPlacedOrder,
                   stateCoupons, usedSpecialCoupons, manualRequests, passes, deliveries>>

PriceCoupons == {"SAVE50", "NEPAL100"}

InitPrice ==
    /\ cart \in {c \in [DOMAIN PriceProducts -> 0..7] :
                    /\ \A l \in DOMAIN PriceProducts : c[l] <= PriceProducts[l].stock
                    /\ \E l \in DOMAIN PriceProducts : c[l] > 0}
    /\ appliedCoupons = <<>>
    /\ server = "current"
    /\ coupons = CouponDocs
    /\ orders = <<>>
    /\ stock = InitialStock
    /\ userMobile = [u \in Users |-> ""]
    /\ txn = <<>>
    /\ started = 0
    /\ lastValidation = NoValidation
    /\ notifications = <<>>
    /\ autoApplyNav = ""
    /\ couponCode = ""
    /\ hasPlacedOrder = FALSE
    /\ stateCoupons = <<>>
    /\ usedSpecialCoupons = <<>>
    /\ manualRequests = EmptyBag
    /\ passes = EmptyBag
    /\ AdminIdle
    /\ HttpIdle
    /\ deliveries = 0

NextPrice ==
    \/ \E l \in DOMAIN PriceProducts : PricePlus(l)
    \/ \E l \in DOMAIN PriceProducts : PriceMinus(l)
    \/ \E code \in PriceCoupons : PriceApply(code)
    \/ \E code \in PriceCoupons : PriceRemove(code)

PriceSpec == InitPrice /\ [][NextPrice]_vars

----------------------------------------------------------------------------
(* Claims about the manual apply and the cart's amounts *)

\* C18: a user-invoked apply of a code that designates a coupon already in
\* the applied-coupon list (the server matches codes upper-cased) sends no
\* validation request and leaves the list unchanged.
C18_AlreadyAppliedSendsNothing ==
    [][\A codeOverride \in {""} \cup CardCodes :
         LET codeToValidate == IF codeOverride # "" THEN codeOverride
                               ELSE couponCode
         IN (/\ HasCode(appliedCoupons, ToUpperCase(codeToValidate))
             /\ HandleApplyCoupon(codeOverride))
            => /\ manualRequests' = manualRequests
               /\ appliedCoupons' = appliedCoupons]_vars

\* the bulk discount of a line as the claim gives it
ClaimedLineDiscount(item) ==
    IF Len(item.bulkRule) = 0 THEN 0
    ELSE LET n == item.bulkRule[1].qty
             b == item.bulkRule[1].price
             d == item.quantity * item.price
                  - ((item.quantity \div n) * b + (item.quantity % n) * item.price)
         IN  IF d > 0 THEN d ELSE 0

Calculated == Calculation(CartItems(cart), appliedCoupons)

\* C19: the cart's bulk discount is the sum over its lines of
\* max(0, Q*P - (floor(Q/N)*B + (Q mod N)*P)), 0 for a line without a bulk
\* rule, and hence never negative, also when B exceeds N*P.
C19_BulkDiscountNeverNegative ==
    LET items == CartItems(cart)
        claimed[n \in 0..Len(items)] ==
          IF n = 0 THEN 0 ELSE claimed[n - 1] + ClaimedLineDiscount(items[n])
    IN  /\ Calculated.bulkDiscount = claimed[Len(items)]
        /\ Calculated.bulkDiscount >= 0

\* the delivery tiers as the claim gives them
ClaimedDelivery(netAmount) ==
    IF netAmount < 1000 THEN 50
    ELSE IF netAmount <= 3000 THEN 25
    ELSE 0

\* C20: the delivery charge is 50 when netAmount < 1000, 25 when
\* 1000 <= netAmount <= 3000 and 0 when netAmount > 3000, netAmount being
\* subtotal - bulk discount before the coupons; it is the charge of the
\* same cart without coupons, so applying or removing coupons never
\* changes it.
C20_DeliveryByNetAmount ==
    /\ Calculated.deliveryCharge
         = ClaimedDelivery(Calculated.subtotal - Calculated.bulkDiscount)
    /\ Calculated.deliveryCharge
         = Calculation(CartItems(cart), <<>>).deliveryCharge

\* C20 witness: netAmount is exactly 3000, coupons are applied and the
\* charge is 25
C20_Witness ==
    /\ Calculated.subtotal - Calculated.bulkDiscount = 3000
    /\ Len(appliedCoupons) > 0
    /\ Calculated.deliveryCharge = 25

\* the cart has a line with a bulk rule
HasBulkRule == \E l \in DOMAIN PriceProducts : cart[l] > 0 /\ Len(PriceProducts[l].bulkRule) > 0

\* the sum of the discounts of the applied coupons
DiscountSum ==
    LET f[n \in 0..Len(appliedCoupons)] ==
          IF n = 0 THEN 0 ELSE f[n - 1] + appliedCoupons[n].discount
    IN  f[Len(appliedCoupons)]

\* C21: the displayed order total is max(0, netAmount - sum of the discounts
\* of all applied coupons + deliveryCharge), netAmount being subtotal - bulk
\* discount; with subtotal 1500, no bulk rule and no coupons it is 1525.
C21_DisplayedTotal ==
    LET netAmount == Calculated.subtotal - Calculated.bulkDiscount
        claimed == netAmount - DiscountSum + Calculated.deliveryCharge
    IN  /\ OrderTotalDisplay(Calculated.total) = (IF claimed >= 0 THEN claimed ELSE 0)
        /\ OrderTotalDisplay(Calculated.total) >= 0
        /\ (Calculated.subtotal = 1500 /\ ~HasBulkRule /\ appliedCoupons = <<>>)
           => OrderTotalDisplay(Calculated.total) = 1525

\* C21 witness: subtotal 1500 without bulk rule and coupons, 1525 displayed
C21_Witness ==
    /\ Calculated.subtotal = 1500 /\ ~HasBulkRule /\ appliedCoupons = <<>>
    /\ Calculated.deliveryCharge = 25
    /\ OrderTotalDisplay(Calculated.total) = 1525

----------------------------------------------------------------------------
(* Claims about the server's boundaries *)

\* C22: coupon codes are upper-cased at every server boundary before they
\* are matched against the catalog; in particular every stored order of
\* the current server has marked, for its user, each coupon that one of its
\* couponCodes designates in any letter case.
C22_OrderCodesUpperCased ==
    server = "current" =>
        \A i \in StoredOrders : \A k \in 1..Len(orders[i].couponCodes) :
            ToUpperCase(orders[i].couponCodes[k]) \in DOMAIN coupons
            => Includes(coupons[ToUpperCase(orders[i].couponCodes[k])].usedBy,
                        orders[i].user)

\* the state without orders, validations and cart
ServerAndCartIdle ==
    /\ server = "current"
    /\ coupons = CouponDocs
    /\ stock = InitialStock
    /\ orders = <<>>
    /\ userMobile = [u \in Users |-> ""]
    /\ txn = <<>>
    /\ started = 0
    /\ lastValidation = NoValidation
    /\ notifications = <<>>
    /\ autoApplyNav = ""
    /\ cart = [l \in DOMAIN Products |-> 0]
    /\ appliedCoupons = <<>>
    /\ couponCode = ""
    /\ hasPlacedOrder = FALSE
    /\ stateCoupons = <<>>
    /\ usedSpecialCoupons = <<>>
    /\ manualRequests = EmptyBag
    /\ passes = EmptyBag
    /\ deliveries = 0

\* the Coupon model (models.cjs) may or may not declare code unique
InitAdmin ==
    /\ ServerAndCartIdle
    /\ couponCollection = InitialCollection
    /\ uniqueIndex \in BOOLEAN
    /\ adminReq = [r \in AdminSlots |-> IdleAdmin]
    /\ adminStarted = 0
    /\ HttpIdle

NextAdmin ==
    \/ \E r \in AdminSlots, code \in AdminCodes, amount \in AdminAmounts :
          CreateCoupon(r, code, amount)
    \/ \E r \in AdminSlots : SaveCoupon(r)
    \/ \E r \in AdminSlots, param \in AdminCodes, code \in AdminCodes, amount \in AdminAmounts :
          UpdateCoupon(r, param, code, amount)
    \/ \E r \in AdminSlots : FindOneAndUpdate(r)
    \/ \E r \in AdminSlots, param \in AdminCodes : DeleteCoupon(r, param)

AdminSpec == InitAdmin /\ [][NextAdmin]_vars

\* the admin request of slot r is answered in this step
Answered(r) == adminReq[r].pc # "idle" /\ adminReq'[r].pc = "idle"

\* C23: no two documents of the coupon collection have the same upper-cased
\* code; a create, or a rename, whose code is held by another document when
\* it is written is answered 'Coupon code already exists' and leaves the
\* collection unchanged, also when two requests for the same code are
\* processed concurrently.
C23_CodesUnique ==
    [][/\ \A i, j \in 1..Len(couponCollection') :
            i # j => ToUpperCase(couponCollection'[i].code)
                     # ToUpperCase(couponCollection'[j].code)
       /\ \A r \in AdminSlots :
            (/\ Answered(r)
             /\ adminReq[r].code # adminReq[r].originalCode
             /\ FindCode(couponCollection, adminReq[r].code) # {})
            => /\ adminReq'[r].message = "Coupon code already exists"
               /\ couponCollection' = couponCollection]_vars

\* the coupons of list that are targeted at another user than the cart's
TargetedAtOthers(list) ==
    {i \in 1..Len(list) :
        /\ list[i].targetUsername # ""
        /\ TargetUser[list[i].code] # CartUser}

\* C24: a targeted coupon is visible only to its target user: neither the
\* coupon list the cart's user obtained from GET /api/coupons nor the cards
\* offered to that user in the cart include a coupon whose targetUsername
\* designates another user.
C24_TargetedVisibleToTargetOnly ==
    /\ TargetedAtOthers(stateCoupons) = {}
    /\ TargetedAtOthers(SpecialGiftCards(stateCoupons)) = {}
    /\ TargetedAtOthers(AvailableCards(stateCoupons, hasPlacedOrder)) = {}

\* C25: order submission stores the client-sent discount and
\* deliveryCharge as discountApplied and deliveryCharge unchanged (0 when
\* omitted), whatever couponCodes are sent: the request takes them from the
\* body as they are and the commit stores them as the request holds them.
C25_DiscountAtFaceValue ==
    [][\A r \in Slots :
         /\ (txn[r].pc = "idle" /\ txn'[r].pc # "idle")
            => \A u \in Users : \A body \in BodiesOf[u] :
                  BeginOrder(r, u, body)
                  => /\ txn'[r].discountApplied = OrZero(body.discount)
                     /\ txn'[r].deliveryCharge = OrZero(body.deliveryCharge)
         /\ (txn[r].pc = "commit" /\ Len(orders') > Len(orders) /\ CommitTransaction(r))
            => /\ orders'[Len(orders')].discountApplied = txn[r].discountApplied
               /\ orders'[Len(orders')].deliveryCharge = txn[r].deliveryCharge]_vars

\* C25 witness: the current server stored an order of 450 without coupon
\* codes with a discount of 50 and a delivery charge of 25 (the tier of 450
\* is 50), and an order that sent neither with 0 and 0
C25_Witness ==
    /\ server = "current"
    /\ \E i \in StoredOrders :
          /\ orders[i].couponCodes = <<>> /\ orders[i].totalAmount = 450
          /\ orders[i].discountApplied = 50 /\ orders[i].deliveryCharge = 25
    /\ \E i \in StoredOrders :
          orders[i].discountApplied = 0 /\ orders[i].deliveryCharge = 0

----------------------------------------------------------------------------
(* Claims about the usage ledger and the auto-apply *)

\* the user of the cart is in the usedBy array of the coupon code
RedeemedByCartUser(code) ==
    code \in DOMAIN coupons /\ Includes(coupons[code].usedBy, CartUser)

\* C26 as stated: the usage ledger is not consulted for automatically
\* applied coupons: once every validation response has been delivered, a
\* cart whose subtotal has a tiered target that its user redeemed in a
\* committed order has that coupon applied.
C26_LedgerNotConsulted ==
    (/\ AllDelivered
     /\ CartLength(cart) > 0
     /\ TargetTierCoupon(Subtotal(cart)) # ""
     /\ RedeemedByCartUser(TargetTierCoupon(Subtotal(cart))))
    => HasCode(appliedCoupons, TargetTierCoupon(Subtotal(cart)))

\* C26 amended: the usage ledger is consulted for every validation, the
\* automatic ones included: no coupon that the cart's user redeemed in a
\* committed order is in the applied-coupon list, whether the auto-apply
\* or the user asked for it.
C26_LedgerConsulted ==
    \A i \in AppliedIndexes : ~RedeemedByCartUser(appliedCoupons[i].code)

\* C26 witness: the user redeemed NEPAL100, the cart reaches 8000, every
\* response has been delivered and NEPAL100 is not applied
C26_Witness ==
    /\ RedeemedByCartUser("NEPAL100")
    /\ CartLength(cart) > 0 /\ Subtotal(cart) >= 8000
    /\ stateCoupons # <<>>
    /\ AllDelivered
    /\ ~HasCode(appliedCoupons, "NEPAL100")

\* C27: no fallback between tiers: when the validation of the target
\* tiered coupon fails, the evaluation pass applies no other coupon, sends
\* no further request and leaves the applied-coupon list unchanged, so a
\* lower-tier coupon that was applied stays applied.
C27_NoFallback ==
    [][\A p \in BagToSet(passes) :
          (/\ p.stage = "tier"
           /\ ~Validate(p.code, p.total).isValid
           /\ TieredResponse(p))
          => /\ appliedCoupons' = appliedCoupons
             /\ passes' = passes (-) SetToBag({p})
             /\ manualRequests' = manualRequests]_vars

\* C27 witness: the cart reached 8000 with ABOVE2500 applied, NEPAL100 was
\* refused as redeemed, every response has been delivered and ABOVE2500 is
\* still applied
C27_Witness ==
    /\ RedeemedByCartUser("NEPAL100")
    /\ CartLength(cart) > 0 /\ Subtotal(cart) >= 8000
    /\ AllDelivered
    /\ HasCode(appliedCoupons, "ABOVE2500")
    /\ ~HasCode(appliedCoupons, "NEPAL100")

----------------------------------------------------------------------------
(* Claims about the order-created notification *)

\* C28: the order-created notification is emitted only after the order
\* transaction has committed: at every moment the notifications emitted are
\* those of the stored orders, one for each in commit order (none for an
\* aborted submission), and each carries the total and the final total the
\* server computed from the items, the discount and the delivery charge.
C28_OneNotificationPerCommit ==
    /\ Len(notifications) = Len(orders)
    /\ \A i \in 1..Len(notifications) :
          i <= Len(orders) =>
             /\ notifications[i].userId = orders[i].user
             /\ notifications[i].total = ItemsSum(orders[i].items)
             /\ notifications[i].finalTotal
                  = ItemsSum(orders[i].items) - orders[i].discountApplied
                    + orders[i].deliveryCharge

----------------------------------------------------------------------------
(* The cart with every validation request answered eventually *)

\* the responses, delivered whatever the number of requests and applied
\* coupons they leave
DeliverApplyCoupon(req) ==
    /\ BagIn(req, manualRequests)
    /\ Renders(Rerender(AfterApplyCoupon(req)))
    /\ deliveries' = deliveries + 1

DeliverFirstOrder(p) ==
    /\ BagIn(p, passes)
    /\ p.stage = "fo"
    /\ Renders(Rerender(AfterFirstOrder(p)))
    /\ deliveries' = deliveries + 1

DeliverTiered(p) ==
    /\ BagIn(p, passes)
    /\ p.stage = "tier"
    /\ Renders(Rerender(AfterTiered(p)))
    /\ deliveries' = deliveries + 1

\* a response is delivered
Delivery ==
    \/ \E req \in BagToSet(manualRequests) : DeliverApplyCoupon(req)
    \/ \E p \in BagToSet(passes) : DeliverFirstOrder(p)
    \/ \E p \in BagToSet(passes) : DeliverTiered(p)

\* the user, the coupon fetch or the order-history check changes the state
Change ==
    \/ \E l \in DOMAIN Products : QuantityMinus(l)
    \/ \E l \in DOMAIN Products : QuantityPlus(l)
    \/ \E l \in DOMAIN Products : RemoveLine(l)
    \/ \E code \in DOMAIN CouponDocs : HandleRemoveCoupon(code)
    \/ CheckHistory
    \/ FetchCoupons

NextQuiesce == Change \/ Delivery

QuiesceSpec == Init /\ [][NextQuiesce]_vars

----------------------------------------------------------------------------
(* Claims about the quiescence of the auto-apply effect *)

\* the responses that can be delivered after a change before the cart is quiet
QuiesceBound == MaxInFlight * MaxInFlight * MaxInFlight

\* C29: auto-apply reaches quiescence: once the cart, the coupon catalog and
\* the order-history flag stop changing, only a bounded number of validation
\* responses is delivered (so only finitely many requests are issued and the
\* applied set stops changing); a target coupon whose validation keeps
\* failing is not validated again and again.
C29_Quiescence == deliveries <= QuiesceBound

\* a returning user whose target tier NEPAL100 was refused: every response has
\* been delivered and the coupon is not applied
C29_Witness ==
    /\ coupons = ReturningCoupons
    /\ TargetTierCoupon(Subtotal(cart)) = "NEPAL100"
    /\ deliveries > 0
    /\ AllDelivered
    /\ ~HasCode(appliedCoupons, "NEPAL100")

----------------------------------------------------------------------------
(* The HTTP client specification *)

InitHttp ==
    /\ ServerAndCartIdle
    /\ couponCollection = InitialCollection
    /\ uniqueIndex = TRUE
    /\ adminReq = [r \in AdminSlots |-> IdleAdmin]
    /\ adminStarted = 0
    /\ httpClient \in {"part_002", "api.ts"}
    /\ memoryAccessToken \in {""} \cup AccessTokens
    /\ csrfToken \in {""} \cup CsrfTokens
    /\ call = IdleCall
    /\ calls = 0

\* an attempt of the original request settles
Settles == \E resp \in Responses \cup {Rejected} : Response(resp)

NextHttp ==
    \/ \E isAuthRoute \in BOOLEAN, method \in Methods : ApiRequest(isAuthRoute, method)
    \/ \E token \in {""} \cup CsrfTokens : CsrfTokenAnswer(token)
    \/ Settles
    \/ \E answer \in RefreshAnswers : RefreshAnswer(answer)
    \/ \E token \in {""} \cup AccessTokens : SetApiAccessToken(token)

\* performRequest aborts its fetch after 15 s, so every attempt settles; the
\* fetches of /csrf-token and /refresh-token carry no timer
HttpSpec == InitHttp /\ [][NextHttp]_vars /\ WF_vars(Settles)

----------------------------------------------------------------------------
(* Claims about the HTTP client *)

\* the call has ended: data returned or an Error thrown
Ended == call.pc \in {"returned", "thrown"}

\* at most three attempts, one CSRF refresh and one access-token refresh
RetriesBounded ==
    /\ call.attempts <= 3
    /\ call.csrfRefreshes <= 1
    /\ call.tokenRefreshes <= 1

\* a step of the call changes the access token only on a successful refresh
TokenStep ==
    (call' # call /\ memoryAccessToken' # memoryAccessToken)
        => (call.pc = "refresh" /\ call'.refresh = "ok")

\* C30: the retries of one apiRequest call are bounded (at most one CSRF
\* refresh with one retry, at most one access-token refresh with one retry,
\* at most three attempts), the call changes the in-memory access token only
\* when a refresh succeeded, and the call always ends by returning data or
\* throwing an error.
C30_BoundedAndEnds ==
    /\ []RetriesBounded
    /\ [][TokenStep]_vars
    /\ (call.pc # "idle") ~> Ended
====
